---- MODULE Spec2Model ----
(***************************************************************************)
(* Model of src/structure.py: a typer command that resolves its execution  *)
(* environment (managed or local), builds one griptape Agent with an       *)
(* OpenAI prompt driver and a DateTimeTool, and runs it once.              *)
(*                                                                         *)
(* One process is modelled from `app()` (line 39) to its exit.  The calls  *)
(* into the libraries (typer, dotenv, griptape) are steps of the process;  *)
(* each library call made after argument parsing may return or raise, and  *)
(* an exception is never caught in structure.py, so it ends the process.   *)
(***************************************************************************)
EXTENDS Naturals, Sequences, FiniteSets

\* ------------------------------------------------------------------ bounds
\* Longest command line enumerated exhaustively.
MaxArgs == 4

\* ------------------------------------------------------- program constants
MarkerVar == "GT_CLOUD_STRUCTURE_RUN_ID"

\* class Model(str, Enum)
GPT4 == "gpt-4o"
GPT35 == "gpt-3.5-turbo"
GTP4_MINI == "gpt-4o-mini"
Model == {GPT4, GPT35, GTP4_MINI}

\* The declared names of the model option of `run`.
OptionNames == {"--model", "--m"}

\* Mutant of ModelDefault: another member of the enumeration as the default.
ModelDefaultMini == GTP4_MINI

\* typer.Option(Model.GPT4, ...): the value used when the option is absent.
ModelDefault == GPT4

\* tools=[DateTimeTool()]
AgentTools == <<"DateTimeTool">>

\* The listener built by lines 17-19.
CloudListener == "EventListener(GriptapeCloudEventListenerDriver)"

\* Values of fields not assigned yet.
None == "None"

\* ------------------------------------------------------------------ inputs
\* Command-line tokens: a prompt word, the two option names, the three
\* allowed model identifiers and one identifier outside the enumeration.
Tokens == {"Hello", "--model", "--m", GPT4, GPT35, GTP4_MINI, "gpt-5"}

\* Further command lines: the specification's scenarios whose words are not
\* in Tokens, and a repeated option around a prompt.
ScenarioArgv ==
    { <<"What", "time", "is", "it?">>,
      <<"What time is it?">>,
      <<"--model", "gpt-5", "--model", GPT35, "Hello">>,
      <<"--m", GPT35, "Hello", "--model", "gpt-5">>,
      <<"--model", GPT4, "--m", GTP4_MINI, "Hello">> }

ArgvSet == (UNION { [1..n -> Tokens] : n \in 0..MaxArgs }) \cup ScenarioArgv

\* Values the marker variable can carry (presence is what matters, so the
\* empty string is included).
MarkerValues == {"", "run-1"}

\* A process environment / the content of a .env file: a partial function
\* from variable names to strings.  Only the marker variable is tracked.
EnvSet == { [n \in D |-> v] : D \in SUBSET {MarkerVar}, v \in MarkerValues }

VARIABLES
    argv,         \* sys.argv[1:]
    startEnviron, \* os.environ when the process starts
    environ,      \* os.environ
    dotenvFile,   \* key/value pairs of the .env file load_dotenv would read
    pc,           \* position of the process
    exitCode,     \* exit status once pc = "exit"
    prompt,       \* parameter `prompt` of run
    model,        \* parameter `model` of run
    mode,         \* branch taken by setup_cloud_listener
    listeners,    \* EventBus event listeners
    agents,       \* Agent objects constructed
    runCalls,     \* arguments of the calls of Agent.run
    trace         \* library calls made so far, in order

vars == <<argv, startEnviron, environ, dotenvFile, pc, exitCode, prompt, model,
          mode, listeners, agents, runCalls, trace>>

\* ---------------------------------------------------------------- helpers
\* Number of occurrences of e in s.
RECURSIVE Count(_, _)
Count(s, e) ==
    IF s = <<>> THEN 0
    ELSE (IF Head(s) = e THEN 1 ELSE 0) + Count(Tail(s), e)

\* Position of the first occurrence of e in s, 0 when absent.
RECURSIVE IndexFrom(_, _, _)
IndexFrom(s, e, i) ==
    IF i > Len(s) THEN 0
    ELSE IF s[i] = e THEN i
    ELSE IndexFrom(s, e, i + 1)

Index(s, e) == IndexFrom(s, e, 1)

\* ------------------------------------------------------- argument parsing
\* The command-line pass of the argument parser over `run`'s signature:
\* an option name takes the next token as its value, any other token is a
\* positional argument.
RECURSIVE Collect(_, _, _)
Collect(args, i, acc) ==
    IF i > Len(args) THEN acc
    ELSE IF args[i] \in OptionNames
         THEN IF i = Len(args)
              THEN [acc EXCEPT !.missingValue = TRUE]
              ELSE Collect(args, i + 2,
                           [acc EXCEPT !.values = Append(@, args[i + 1])])
         ELSE Collect(args, i + 1,
                      [acc EXCEPT !.positionals = Append(@, args[i])])

Collected(args) ==
    Collect(args, 1, [positionals |-> <<>>, values |-> <<>>, missingValue |-> FALSE])

\* Mutant of ParseArgs: `model: str`, the value is not validated against Model.
ParseArgsNoChoice(args) ==
    LET c == Collected(args)
        raw == IF c.values = <<>> THEN ModelDefault ELSE c.values[Len(c.values)]
    IN  IF c.missingValue \/ Len(c.positionals) # 1
        THEN [ok |-> FALSE, prompt |-> None, model |-> None]
        ELSE [ok |-> TRUE, prompt |-> c.positionals[1], model |-> raw]

\* Mutant of ParseArgs: trailing positionals are accepted, the first is the prompt.
ParseArgsVariadic(args) ==
    LET c == Collected(args)
        raw == IF c.values = <<>> THEN ModelDefault ELSE c.values[Len(c.values)]
    IN  IF c.missingValue \/ raw \notin Model \/ Len(c.positionals) = 0
        THEN [ok |-> FALSE, prompt |-> None, model |-> None]
        ELSE [ok |-> TRUE, prompt |-> c.positionals[1], model |-> raw]

\* run(prompt: str, model: Model = typer.Option(Model.GPT4, "--model", "--m")):
\* exactly one positional `prompt`; the option's value (the last one given,
\* the default when none is) must be a value of Model.
ParseArgs(args) ==
    LET c == Collected(args)
        raw == IF c.values = <<>> THEN ModelDefault ELSE c.values[Len(c.values)]
    IN  IF c.missingValue \/ raw \notin Model \/ Len(c.positionals) # 1
        THEN [ok |-> FALSE, prompt |-> None, model |-> None]
        ELSE [ok |-> TRUE, prompt |-> c.positionals[1], model |-> raw]

\* ------------------------------------------------------------ environment
\* Mutant of EnvironHasMarker: truthiness of the value instead of presence.
EnvironMarkerTruthy(e) == MarkerVar \in DOMAIN e /\ e[MarkerVar] # ""

\* "GT_CLOUD_STRUCTURE_RUN_ID" in os.environ
EnvironHasMarker(e) == MarkerVar \in DOMAIN e

\* load_dotenv(): the pairs of the file are added to the environment;
\* variables already set keep their value.
LoadDotenv(e, f) ==
    [n \in (DOMAIN e) \cup (DOMAIN f) |-> IF n \in DOMAIN e THEN e[n] ELSE f[n]]

\* Mutant of PromptDriverModel: the driver is built without the selection.
PromptDriverModelDefault(m) == ModelDefault

\* OpenAiChatPromptDriver(model=model)
PromptDriverModel(m) == m

\* ------------------------------------------------------------------- Init
Init ==
    /\ argv \in ArgvSet
    /\ startEnviron \in EnvSet
    /\ environ = startEnviron
    /\ dotenvFile \in EnvSet
    /\ pc = "main"
    /\ exitCode = None
    /\ prompt = None
    /\ model = None
    /\ mode = "Unresolved"
    /\ listeners = <<>>
    /\ agents = <<>>
    /\ runCalls = <<>>
    /\ trace = <<>>

\* ---------------------------------------------------------------- actions
\* An uncaught exception: the interpreter exits with status 1.
Raise ==
    /\ pc' = "exit"
    /\ exitCode' = 1

\* Mutant of App: the body of run builds the agent without calling
\* setup_cloud_listener first.
AppSkipSetup ==
    /\ pc = "main"
    /\ LET r == ParseArgs(argv)
       IN  IF r.ok
           THEN /\ pc' = "construct"
                /\ prompt' = r.prompt
                /\ model' = r.model
                /\ exitCode' = exitCode
           ELSE /\ pc' = "exit"
                /\ exitCode' = 2
                /\ UNCHANGED <<prompt, model>>
    /\ trace' = Append(trace, "parse")
    /\ UNCHANGED <<argv, startEnviron, environ, dotenvFile, mode, listeners,
                   agents, runCalls>>

\* app(): the command line is parsed; a usage error exits with status 2
\* before the body of run is entered.
App ==
    /\ pc = "main"
    /\ LET r == ParseArgs(argv)
       IN  IF r.ok
           THEN /\ pc' = "setup"
                /\ prompt' = r.prompt
                /\ model' = r.model
                /\ exitCode' = exitCode
           ELSE /\ pc' = "exit"
                /\ exitCode' = 2
                /\ UNCHANGED <<prompt, model>>
    /\ trace' = Append(trace, "parse")
    /\ UNCHANGED <<argv, startEnviron, environ, dotenvFile, mode, listeners,
                   agents, runCalls>>

\* The managed branch of setup_cloud_listener.
RegisterListener ==
    /\ mode' = "Managed"
    /\ \/ /\ listeners' = Append(listeners, CloudListener)
          /\ trace' = trace \o <<"marker_check", "add_event_listener">>
          /\ pc' = "construct"
          /\ exitCode' = exitCode
       \/ /\ trace' = Append(trace, "marker_check")
          /\ UNCHANGED listeners
          /\ Raise
    /\ UNCHANGED environ

\* The local branch of setup_cloud_listener.
LoadLocalConfig ==
    /\ mode' = "Local"
    /\ trace' = trace \o <<"marker_check", "load_dotenv">>
    /\ \/ /\ environ' = LoadDotenv(environ, dotenvFile)
          /\ pc' = "construct"
          /\ exitCode' = exitCode
       \/ /\ UNCHANGED environ
          /\ Raise
    /\ UNCHANGED listeners

\* Mutant of SetupCloudListener: the .env file is never loaded.
SetupNoDotenv ==
    /\ pc = "setup"
    /\ IF EnvironHasMarker(environ)
       THEN RegisterListener
       ELSE /\ mode' = "Local"
            /\ trace' = Append(trace, "marker_check")
            /\ pc' = "construct"
            /\ UNCHANGED <<environ, listeners, exitCode>>
    /\ UNCHANGED <<argv, startEnviron, dotenvFile, prompt, model, agents, runCalls>>

\* Mutant of SetupCloudListener: the marker is looked up again after the
\* .env file is loaded, and the listener registered when it is now set.
SetupRecheck ==
    /\ pc = "setup"
    /\ IF EnvironHasMarker(environ)
       THEN RegisterListener
       ELSE LET e == LoadDotenv(environ, dotenvFile)
            IN  /\ environ' = e
                /\ pc' = "construct"
                /\ exitCode' = exitCode
                /\ IF EnvironHasMarker(e)
                   THEN /\ mode' = "Managed"
                        /\ listeners' = Append(listeners, CloudListener)
                        /\ trace' = trace \o <<"marker_check", "load_dotenv",
                                               "marker_check", "add_event_listener">>
                   ELSE /\ mode' = "Local"
                        /\ UNCHANGED listeners
                        /\ trace' = trace \o <<"marker_check", "load_dotenv">>
    /\ UNCHANGED <<argv, startEnviron, dotenvFile, prompt, model, agents, runCalls>>

\* Mutant of SetupCloudListener: called at module level, before app().
SetupAtImport ==
    /\ pc = "main"
    /\ mode = "Unresolved"
    /\ IF EnvironHasMarker(environ)
       THEN /\ mode' = "Managed"
            /\ listeners' = Append(listeners, CloudListener)
            /\ trace' = trace \o <<"marker_check", "add_event_listener">>
            /\ UNCHANGED environ
       ELSE /\ mode' = "Local"
            /\ environ' = LoadDotenv(environ, dotenvFile)
            /\ trace' = trace \o <<"marker_check", "load_dotenv">>
            /\ UNCHANGED listeners
    /\ UNCHANGED <<argv, startEnviron, dotenvFile, pc, exitCode, prompt, model,
                   agents, runCalls>>

\* setup_cloud_listener(), called first in the body of run.
SetupCloudListener ==
    /\ pc = "setup"
    /\ IF EnvironHasMarker(environ)
       THEN RegisterListener
       ELSE LoadLocalConfig
    /\ UNCHANGED <<argv, startEnviron, dotenvFile, prompt, model, agents, runCalls>>

\* Mutant of AgentConstruct: a second agent is built (e.g. one per tool list).
AgentConstructTwice ==
    /\ pc = "construct"
    /\ agents' = agents \o
         << [prompt_driver_model |-> PromptDriverModel(model), tools |-> AgentTools],
            [prompt_driver_model |-> PromptDriverModel(model), tools |-> AgentTools] >>
    /\ trace' = trace \o <<"Agent", "Agent">>
    /\ pc' = "invoke"
    /\ UNCHANGED <<argv, startEnviron, environ, dotenvFile, exitCode, prompt,
                   model, mode, listeners, runCalls>>

\* Agent(prompt_driver=OpenAiChatPromptDriver(model=model), tools=[DateTimeTool()])
AgentConstruct ==
    /\ pc = "construct"
    /\ \/ /\ agents' = Append(agents,
                [prompt_driver_model |-> PromptDriverModel(model),
                 tools |-> AgentTools])
          /\ trace' = Append(trace, "Agent")
          /\ pc' = "invoke"
          /\ exitCode' = exitCode
       \/ /\ UNCHANGED <<agents, trace>>
          /\ Raise
    /\ UNCHANGED <<argv, startEnviron, environ, dotenvFile, prompt, model, mode,
                   listeners, runCalls>>

\* .run(prompt): the last statement of run; the process exits when it
\* returns (status 0) or raises (status 1).
AgentRun ==
    /\ pc = "invoke"
    /\ runCalls' = Append(runCalls, prompt)
    /\ trace' = Append(trace, "run")
    /\ pc' = "exit"
    /\ exitCode' \in {0, 1}
    /\ UNCHANGED <<argv, startEnviron, environ, dotenvFile, prompt, model, mode,
                   listeners, agents>>

Next ==
    \/ App
    \/ SetupCloudListener
    \/ AgentConstruct
    \/ AgentRun

Spec == Init /\ [][Next]_vars

\* ------------------------------------------------------------- vocabulary
DotenvCalls == Count(trace, "load_dotenv")
MarkerChecks == Count(trace, "marker_check")
MarkerSetAtStart == MarkerVar \in DOMAIN startEnviron
Terminated == pc = "exit"
Completed == pc = "exit" /\ exitCode = 0
ArgsRejected == pc = "exit" /\ exitCode = 2
TheAgent(m) == [prompt_driver_model |-> m, tools |-> <<"DateTimeTool">>]

\* The value the model option ends up with is outside the enumeration
\* (the last value given counts when the option is repeated).
ModelValueOutside ==
    LET c == Collected(argv)
    IN  c.values # <<>> /\ c.values[Len(c.values)] \notin {"gpt-4o", "gpt-3.5-turbo", "gpt-4o-mini"}
NoPromptArg == Collected(argv).positionals = <<>>
NoModelFlag == \A i \in 1..Len(argv) : argv[i] \notin {"--model", "--m"}

\* ------------------------------------------------------------------ claims

\* C1: when GT_CLOUD_STRUCTURE_RUN_ID is in the environment at start (any
\* value, the empty string included), load_dotenv is never invoked, the
\* event bus never holds more than one listener, and it holds exactly the
\* one managed listener from the moment setup_cloud_listener has returned;
\* in no execution are a listener registered and load_dotenv invoked both.
C1_ManagedNeverLoadsDotenv ==
    /\ MarkerSetAtStart =>
         /\ DotenvCalls = 0
         /\ Len(listeners) <= 1
         /\ (pc \in {"construct", "invoke"} \/ Completed) => listeners = <<CloudListener>>
    /\ ~(listeners # <<>> /\ DotenvCalls > 0)

C1_Witness ==
    /\ MarkerSetAtStart /\ startEnviron[MarkerVar] = ""
    /\ Completed
    /\ listeners = <<CloudListener>>
    /\ DotenvCalls = 0

\* C2: when the marker is absent at start and the arguments are valid,
\* load_dotenv is invoked exactly once by the time the process ends, that
\* invocation precedes the construction of the agent, and no listener is
\* ever registered.
C2_LocalLoadsDotenvOnceBeforeAgent ==
    ~MarkerSetAtStart =>
        /\ listeners = <<>>
        /\ DotenvCalls <= 1
        /\ (pc \in {"construct", "invoke"} \/ (Terminated /\ exitCode # 2)) => DotenvCalls = 1
        /\ agents # <<>> =>
             /\ Index(trace, "load_dotenv") > 0
             /\ Index(trace, "load_dotenv") < Index(trace, "Agent")

C2_Witness ==
    /\ ~MarkerSetAtStart
    /\ Completed
    /\ DotenvCalls = 1
    /\ Len(agents) = 1
    /\ listeners = <<>>

C4_DefaultModelIsGpt4o ==
    NoModelFlag =>
        /\ \A i \in 1..Len(agents) : agents[i].prompt_driver_model = "gpt-4o"
        /\ (pc = "invoke" \/ Completed) => Len(agents) = 1

C4_Witness ==
    /\ argv = <<"Hello">>
    /\ mode = "Managed"
    /\ Completed
    /\ agents = <<TheAgent("gpt-4o")>>

\* C5: for each allowed identifier m given through --model or --m, before
\* or after the prompt, in either mode, the agent constructed has a prompt
\* driver bound to exactly m; with the marker set and --model gpt-3.5-turbo
\* the execution never invokes load_dotenv and, when it completes, has
\* registered the managed listener and constructed one agent with
\* gpt-3.5-turbo.
C5_SelectedModelIsUsed ==
    /\ \A f \in {"--model", "--m"}, m \in {"gpt-4o", "gpt-3.5-turbo", "gpt-4o-mini"} :
          argv \in {<<"Hello", f, m>>, <<f, m, "Hello">>} =>
              /\ \A i \in 1..Len(agents) : agents[i].prompt_driver_model = m
              /\ (pc = "invoke" \/ Completed) => Len(agents) = 1
    /\ (MarkerSetAtStart /\ argv = <<"Hello", "--model", "gpt-3.5-turbo">>) =>
          /\ DotenvCalls = 0
          /\ Completed =>
               /\ listeners = <<CloudListener>>
               /\ agents = <<TheAgent("gpt-3.5-turbo")>>

C5_Witness ==
    /\ MarkerSetAtStart
    /\ argv = <<"Hello", "--model", "gpt-3.5-turbo">>
    /\ Completed
    /\ listeners = <<CloudListener>>
    /\ DotenvCalls = 0
    /\ agents = <<TheAgent("gpt-3.5-turbo")>>

\* C6: in every execution the agent is constructed at most once and run is
\* invoked at most once, and the process has terminated once run has been
\* invoked, with no step enabled after termination; once an agent has been
\* constructed it is the only one, it carries exactly the date/time tool,
\* and by the end of the process run has been invoked on it exactly once
\* with the prompt argument of the command line unchanged; an execution
\* that completes has constructed exactly one agent.
C6_OneAgentOneRun ==
    /\ Len(agents) <= 1 /\ Count(trace, "Agent") = Len(agents)
    /\ Len(runCalls) <= 1 /\ Count(trace, "run") = Len(runCalls)
    /\ runCalls # <<>> => Terminated /\ agents # <<>>
    /\ Terminated => ~ENABLED Next
    /\ agents # <<>> =>
         /\ agents[1].tools = <<"DateTimeTool">>
         /\ Terminated => runCalls = <<Collected(argv).positionals[1]>>
    /\ Completed => Len(agents) = 1 /\ Len(runCalls) = 1

C6_Witness ==
    /\ argv = <<"--m", "gpt-4o-mini", "Hello">>
    /\ Completed
    /\ Len(agents) = 1
    /\ runCalls = <<"Hello">>

\* C7: the marker is looked up at most once per process and the mode it
\* yields never changes afterwards; the mode is Managed only if the marker
\* was present at the lookup, and a Local process registers no listener,
\* also when load_dotenv has added the marker to the environment.
C7_ModeDerivedOnce ==
    /\ [](/\ MarkerChecks <= 1
          /\ (mode # "Unresolved") <=> (MarkerChecks = 1)
          /\ mode = "Managed" => MarkerSetAtStart
          /\ mode = "Local" => ~MarkerSetAtStart /\ listeners = <<>>
          /\ ~MarkerSetAtStart => listeners = <<>>)
    /\ [][mode # "Unresolved" => mode' = mode]_vars

C7_Witness ==
    /\ ~MarkerSetAtStart
    /\ MarkerVar \in DOMAIN environ
    /\ mode = "Local"
    /\ Completed
    /\ listeners = <<>>

\* C8 as stated: the four arguments "What" "time" "is" "it?" with the
\* marker unset end in one agent constructed with the default model and
\* one invocation of run.
C8_Original ==
    (argv = <<"What", "time", "is", "it?">> /\ ~MarkerSetAtStart /\ Terminated) =>
        /\ Len(agents) = 1
        /\ agents[1].prompt_driver_model = "gpt-4o"
        /\ Len(runCalls) = 1

\* C8 amended: the program accepts exactly one positional argument as the
\* prompt.  With no positional argument, or with more than one (such as
\* "What" "time" "is" "it?"), the command line is rejected with exit
\* status 2, no agent is constructed and run is not invoked.  With the
\* single argument "What time is it?" and the marker unset, an execution
\* that completes has constructed exactly one agent with the default model
\* gpt-4o and invoked run exactly once with that argument.
C8_SinglePromptArgument ==
    /\ Len(Collected(argv).positionals) # 1 =>
         /\ pc \in {"main", "exit"}
         /\ Terminated => exitCode = 2
         /\ agents = <<>> /\ runCalls = <<>>
    /\ (argv = <<"What time is it?">> /\ ~MarkerSetAtStart /\ Completed) =>
         /\ agents = <<TheAgent("gpt-4o")>>
         /\ runCalls = <<"What time is it?">>

C8_Witness ==
    /\ argv = <<"What", "time", "is", "it?">>
    /\ ~MarkerSetAtStart
    /\ Terminated
    /\ exitCode = 2
    /\ agents = <<>>
    /\ runCalls = <<>>

\* C9 as stated: in an execution that both parses the command line and
\* resolves the environment, the marker lookup comes before the parse.
C9_Original ==
    (Index(trace, "parse") > 0 /\ Index(trace, "marker_check") > 0) =>
        Index(trace, "marker_check") < Index(trace, "parse")

\* C9 amended: the command line is parsed first; the environment is
\* resolved (marker lookup, then listener registration or load_dotenv)
\* only after a successful parse; both happen before the agent is
\* constructed, and the agent is constructed before it is run.
C9_ParseThenEnvironmentThenAgent ==
    /\ Index(trace, "marker_check") > 0 =>
         /\ Index(trace, "parse") = 1
         /\ Index(trace, "marker_check") = 2
         /\ pc # "main" /\ ~ArgsRejected
    /\ Index(trace, "add_event_listener") > 0 =>
         Index(trace, "add_event_listener") = Index(trace, "marker_check") + 1
    /\ Index(trace, "load_dotenv") > 0 =>
         Index(trace, "load_dotenv") = Index(trace, "marker_check") + 1
    /\ Index(trace, "Agent") > 0 =>
         /\ Index(trace, "marker_check") > 0
         /\ Index(trace, "add_event_listener") + Index(trace, "load_dotenv") > 0
         /\ Index(trace, "Agent") > Index(trace, "add_event_listener")
         /\ Index(trace, "Agent") > Index(trace, "load_dotenv")
    /\ Index(trace, "run") > 0 =>
         /\ Index(trace, "Agent") > 0
         /\ Index(trace, "Agent") < Index(trace, "run")

C9_Witness ==
    /\ trace = <<"parse", "marker_check", "load_dotenv", "Agent", "run">>
    /\ Completed

\* C10: when the command line is rejected, load_dotenv has not been
\* invoked, no listener is registered, the marker has not been looked up
\* and the environment is as it was at start, whether or not the marker is
\* set.
C10_RejectedArgsLeaveEnvironment ==
    (ArgsRejected \/ ((ModelValueOutside \/ NoPromptArg) /\ pc # "main")) =>
        /\ DotenvCalls = 0
        /\ listeners = <<>>
        /\ MarkerChecks = 0
        /\ mode = "Unresolved"
        /\ environ = startEnviron
        /\ trace = <<"parse">>

C10_Witness ==
    /\ ArgsRejected
    /\ MarkerSetAtStart
    /\ argv = <<"--model", "gpt-5">>
    /\ listeners = <<>>
    /\ DotenvCalls = 0

====
